---- MODULE Spec2Model ----
(***************************************************************************)
(* Model of src/config.py: the configuration loader BotConfig.load, its    *)
(* coercions _to_bool and _to_int, and the adapter BotConfig.to_script_env.*)
(*                                                                         *)
(* A Python str is a sequence of one-character strings, so that strip(),   *)
(* lower(), int() and str() are computed character by character.  Python's *)
(* None is the one-element sequence None, which is no string of characters.*)
(* A dict is a function whose domain is the set of its keys.  A call that  *)
(* can raise returns an outcome [exc, val]: exc is TRUE when the exception *)
(* leaves the call.                                                        *)
(***************************************************************************)
EXTENDS Integers, Sequences, FiniteSets, TLC

None == <<"None">>

EmptyDict == [k \in {} |-> None]

\* dict.get(k): None when the key is absent
get(d, k) == IF k \in DOMAIN d THEN d[k] ELSE None

\* dict.get(k, default)
get_or(d, k, default) == IF k \in DOMAIN d THEN d[k] ELSE default

\* d.update(e), and the loop "for k, v in e.items(): d[k] = v"
update(d, e) == [k \in DOMAIN d \cup DOMAIN e |-> IF k \in DOMAIN e THEN e[k] ELSE d[k]]

\* Python's "a or b" on Optional[str]: None and "" are falsy
Or(a, b) == IF a = None \/ a = <<>> THEN b ELSE a

---------------------------------------------------------------------------
(* str.strip(), str.lower(), int(), str()                                  *)

Whitespace == {" ", "\t", "\n", "\r"}

UpperCase == <<"A", "B", "C", "D", "E", "F", "G", "H", "I", "J", "K", "L", "M",
               "N", "O", "P", "Q", "R", "S", "T", "U", "V", "W", "X", "Y", "Z">>

LowerCase == <<"a", "b", "c", "d", "e", "f", "g", "h", "i", "j", "k", "l", "m",
               "n", "o", "p", "q", "r", "s", "t", "u", "v", "w", "x", "y", "z">>

DigitChars == <<"0", "1", "2", "3", "4", "5", "6", "7", "8", "9">>

Range(f) == {f[i] : i \in DOMAIN f}

RECURSIVE lstrip(_)
lstrip(s) == IF s # <<>> /\ Head(s) \in Whitespace THEN lstrip(Tail(s)) ELSE s

RECURSIVE rstrip(_)
rstrip(s) ==
  IF s # <<>> /\ s[Len(s)] \in Whitespace THEN rstrip(SubSeq(s, 1, Len(s) - 1)) ELSE s

strip(s) == rstrip(lstrip(s))

lower_char(c) ==
  IF c \in Range(UpperCase)
  THEN LowerCase[CHOOSE i \in DOMAIN UpperCase : UpperCase[i] = c]
  ELSE c

lower(s) == [i \in DOMAIN s |-> lower_char(s[i])]

upper_char(c) ==
  IF c \in Range(LowerCase)
  THEN UpperCase[CHOOSE i \in DOMAIN LowerCase : LowerCase[i] = c]
  ELSE c

IsDigit(c) == c \in Range(DigitChars)

DigitVal(c) == (CHOOSE i \in DOMAIN DigitChars : DigitChars[i] = c) - 1

RECURSIVE DecValue(_)
DecValue(ds) ==
  IF ds = <<>> THEN 0
  ELSE DecValue(SubSeq(ds, 1, Len(ds) - 1)) * 10 + DigitVal(ds[Len(ds)])

\* int(s) in base 10 on a stripped string: an optional sign, then digits,
\* where single underscores may separate digits; anything else raises
int(s) ==
  LET signed == s # <<>> /\ Head(s) \in {"+", "-"}
      body == IF signed THEN Tail(s) ELSE s
      wellformed ==
        /\ body # <<>>
        /\ \A i \in DOMAIN body :
             \/ IsDigit(body[i])
             \/ /\ body[i] = "_"
                /\ 1 < i /\ i < Len(body)
                /\ IsDigit(body[i - 1]) /\ IsDigit(body[i + 1])
      magnitude == DecValue(SelectSeq(body, IsDigit))
  IN IF wellformed
     THEN [exc |-> FALSE,
           val |-> IF signed /\ Head(s) = "-" THEN 0 - magnitude ELSE magnitude]
     ELSE [exc |-> TRUE, val |-> 0]

RECURSIVE NatToStr(_)
NatToStr(n) ==
  IF n < 10 THEN <<DigitChars[n + 1]>>
  ELSE NatToStr(n \div 10) \o <<DigitChars[(n % 10) + 1]>>

\* str(n) of an int
str(n) == IF n < 0 THEN <<"-">> \o NatToStr(0 - n) ELSE NatToStr(n)

---------------------------------------------------------------------------
(* _to_bool and _to_int                                                    *)

Truthy == {<<"1">>, <<"t", "r", "u", "e">>, <<"y", "e", "s">>, <<"y">>, <<"o", "n">>}

Falsy == {<<"0">>, <<"f", "a", "l", "s", "e">>, <<"n", "o">>, <<"n">>, <<"o", "f", "f">>}

\* _to_bool without .lower(): the comparison is case-sensitive
_to_bool_no_lower(val, default) ==
  IF val = None THEN default
  ELSE LET s == strip(val)
       IN IF s \in Truthy THEN TRUE
          ELSE IF s \in Falsy THEN FALSE
          ELSE default

\* _to_bool returning False, not the default, for an absent key
_to_bool_none_false(val, default) ==
  IF val = None THEN FALSE
  ELSE LET s == lower(strip(val))
       IN IF s \in Truthy THEN TRUE
          ELSE IF s \in Falsy THEN FALSE
          ELSE default

_to_bool(val, default) ==
  IF val = None THEN default
  ELSE LET s == lower(strip(val))
       IN IF s \in Truthy THEN TRUE
          ELSE IF s \in Falsy THEN FALSE
          ELSE default

\* _to_int returning 0, not the default, when int() raises
_to_int_zero_on_error(val, default) ==
  IF val = None THEN [exc |-> FALSE, val |-> default]
  ELSE LET r == int(strip(val))
       IN IF r.exc THEN [exc |-> FALSE, val |-> 0] ELSE r

_to_int(val, default) ==
  IF val = None THEN [exc |-> FALSE, val |-> default]
  ELSE LET r == int(strip(val))
       IN IF r.exc THEN [exc |-> FALSE, val |-> default] ELSE r

---------------------------------------------------------------------------
(* class BotConfig: the declared fields and their class-level defaults     *)

DOT_ENV == <<".", "e", "n", "v">>

DOT_ENV_XAGA == <<".", "e", "n", "v", "_", "x", "a", "g", "a">>

BoolFields == {"RUN_ENV_SETUP", "RUN_SOURCE_SYNC", "RUN_BUILD", "DRY_RUN",
               "WITH_MIUI_CAM", "APPLY_WPA_PATCHES", "USE_SAFE_BUILD", "POWEROFF",
               "UPLOAD_OTA_JSON", "PIN_SUCCESS_MESSAGE"}

IntFields == {"THREADS"}

StrFields == {"AXION_REMOTE_URL", "AXION_BRANCH", "WORKDIR", "BUILD_VOLUME_DEVICE",
              "DEVICE", "VARIANT", "ROM_TYPE", "CONFIG_OFFICIAL_FLAG", "CONFIG_CHATID",
              "CONFIG_BOT_TOKEN", "CONFIG_ERROR_CHATID", "RCLONE_REMOTE",
              "RCLONE_FOLDER", "PIXELDRAIN_API_KEY", "OTA_JSON_PATH", "ENV_FILE"}

FieldNames == BoolFields \cup IntFields \cup StrFields

\* os.cpu_count() or 8, where 0 stands for the None of an undetermined count
default_threads(cpu_count) == IF cpu_count = 0 THEN 8 ELSE cpu_count

\* the class attributes of BotConfig once the class body has run
BotConfig(cpu_count) ==
  [RUN_ENV_SETUP |-> TRUE,
   RUN_SOURCE_SYNC |-> TRUE,
   RUN_BUILD |-> FALSE,
   DRY_RUN |-> FALSE,
   AXION_REMOTE_URL |-> <<"h", "t", "t", "p", "s", ":", "/", "/", "g", "i", "t", "h",
                          "u", "b", ".", "c", "o", "m", "/", "A", "x", "i", "o", "n",
                          "A", "O", "S", "P", "/", "a", "n", "d", "r", "o", "i", "d",
                          ".", "g", "i", "t">>,
   AXION_BRANCH |-> <<"l", "i", "n", "e", "a", "g", "e", "-", "2", "3", ".", "0">>,
   WORKDIR |-> <<"a", "x", "i", "o", "n", "o", "s">>,
   THREADS |-> default_threads(cpu_count),
   WITH_MIUI_CAM |-> FALSE,
   APPLY_WPA_PATCHES |-> FALSE,
   BUILD_VOLUME_DEVICE |-> <<>>,
   USE_SAFE_BUILD |-> TRUE,
   DEVICE |-> <<"x", "a", "g", "a">>,
   VARIANT |-> <<"u", "s", "e", "r", "d", "e", "b", "u", "g">>,
   ROM_TYPE |-> <<"a", "x", "i", "o", "n", "-", "p", "i", "c", "o">>,
   CONFIG_OFFICIAL_FLAG |-> <<>>,
   CONFIG_CHATID |-> <<>>,
   CONFIG_BOT_TOKEN |-> <<>>,
   CONFIG_ERROR_CHATID |-> <<>>,
   RCLONE_REMOTE |-> <<>>,
   RCLONE_FOLDER |-> <<>>,
   PIXELDRAIN_API_KEY |-> <<>>,
   POWEROFF |-> FALSE,
   UPLOAD_OTA_JSON |-> TRUE,
   OTA_JSON_PATH |-> <<"v", "e", "n", "d", "o", "r", "/", "o", "t", "a", "/", "y", "o",
                       "u", "r", "_", "d", "e", "v", "i", "c", "e", "_", "n", "a", "m",
                       "e", ".", "j", "s", "o", "n">>,
   PIN_SUCCESS_MESSAGE |-> TRUE,
   ENV_FILE |-> DOT_ENV]

---------------------------------------------------------------------------
(* BotConfig.load                                                          *)
(* fs maps each path that is a regular file to what dotenv_values makes of *)
(* it: [exc |-> TRUE] when the parser raises on it, else the dict it       *)
(* returns, in which a key written without a value maps to None.           *)

isfile(fs, path) == path \in DOMAIN fs

dotenv_values(fs, path) == fs[path]

\* merged kept from one call to the next, as a module-level dict would be
new_merged_shared(stale) == stale

\* merged: Dict[str, str] = {}, a new dict in every call whatever dict an
\* earlier call left behind
new_merged(stale) == EmptyDict

\* the resolution without the fallback to .env_xaga
resolve_env_path_no_fallback(env_file, environ, fs) ==
  Or(env_file, Or(get(environ, "ENV_FILE"), DOT_ENV))

\* env_file or os.environ.get("ENV_FILE") or ".env", then the fallback
resolve_env_path(env_file, environ, fs) ==
  LET env_path == Or(env_file, Or(get(environ, "ENV_FILE"), DOT_ENV))
  IN IF ~isfile(fs, env_path) /\ isfile(fs, DOT_ENV_XAGA)
     THEN DOT_ENV_XAGA
     ELSE env_path

\* the read without its try/except: a parser error leaves the call
read_env_file_no_except(merged, fs, env_path, have_dotenv) ==
  IF have_dotenv /\ isfile(fs, env_path)
  THEN LET file_vals == dotenv_values(fs, env_path)
       IN IF file_vals.exc
          THEN [exc |-> TRUE, val |-> merged]
          ELSE [exc |-> FALSE,
                val |-> update(merged,
                               [k \in {j \in DOMAIN file_vals.val : file_vals.val[j] # None}
                                  |-> file_vals.val[k]])]
  ELSE [exc |-> FALSE, val |-> merged]

\* the guarded read of the dotenv file into merged, parse errors ignored
read_env_file(merged, fs, env_path, have_dotenv) ==
  IF have_dotenv /\ isfile(fs, env_path)
  THEN LET file_vals == dotenv_values(fs, env_path)
       IN IF file_vals.exc
          THEN [exc |-> FALSE, val |-> merged]
          ELSE [exc |-> FALSE,
                val |-> update(merged,
                               [k \in {j \in DOMAIN file_vals.val : file_vals.val[j] # None}
                                  |-> file_vals.val[k]])]
  ELSE [exc |-> FALSE, val |-> merged]

\* the overlay the wrong way round: the file's values win
overlay_file_wins(merged, environ) == update(environ, merged)

\* for k, v in os.environ.items(): merged[k] = v
overlay_environ(merged, environ) == update(merged, environ)

\* cfg = cls(...): every field from merged, ENV_FILE from the resolved path
construct(cls, merged, threads, env_path) ==
  [RUN_ENV_SETUP |-> _to_bool(get(merged, "RUN_ENV_SETUP"), TRUE),
   RUN_SOURCE_SYNC |-> _to_bool(get(merged, "RUN_SOURCE_SYNC"), TRUE),
   RUN_BUILD |-> _to_bool(get(merged, "RUN_BUILD"), FALSE),
   DRY_RUN |-> _to_bool(get(merged, "DRY_RUN"), FALSE),
   AXION_REMOTE_URL |-> get_or(merged, "AXION_REMOTE_URL", cls.AXION_REMOTE_URL),
   AXION_BRANCH |-> get_or(merged, "AXION_BRANCH", cls.AXION_BRANCH),
   WORKDIR |-> get_or(merged, "WORKDIR", cls.WORKDIR),
   THREADS |-> threads,
   WITH_MIUI_CAM |-> _to_bool(get(merged, "WITH_MIUI_CAM"), FALSE),
   APPLY_WPA_PATCHES |-> _to_bool(get(merged, "APPLY_WPA_PATCHES"), FALSE),
   BUILD_VOLUME_DEVICE |-> get_or(merged, "BUILD_VOLUME_DEVICE", cls.BUILD_VOLUME_DEVICE),
   USE_SAFE_BUILD |-> _to_bool(get(merged, "USE_SAFE_BUILD"), TRUE),
   DEVICE |-> get_or(merged, "DEVICE", cls.DEVICE),
   VARIANT |-> get_or(merged, "VARIANT", cls.VARIANT),
   ROM_TYPE |-> get_or(merged, "ROM_TYPE", cls.ROM_TYPE),
   CONFIG_OFFICIAL_FLAG |-> get_or(merged, "CONFIG_OFFICIAL_FLAG", cls.CONFIG_OFFICIAL_FLAG),
   CONFIG_CHATID |-> get_or(merged, "CONFIG_CHATID", cls.CONFIG_CHATID),
   CONFIG_BOT_TOKEN |-> get_or(merged, "CONFIG_BOT_TOKEN", cls.CONFIG_BOT_TOKEN),
   CONFIG_ERROR_CHATID |-> get_or(merged, "CONFIG_ERROR_CHATID", cls.CONFIG_ERROR_CHATID),
   RCLONE_REMOTE |-> get_or(merged, "RCLONE_REMOTE", cls.RCLONE_REMOTE),
   RCLONE_FOLDER |-> get_or(merged, "RCLONE_FOLDER", cls.RCLONE_FOLDER),
   PIXELDRAIN_API_KEY |-> get_or(merged, "PIXELDRAIN_API_KEY", cls.PIXELDRAIN_API_KEY),
   POWEROFF |-> _to_bool(get(merged, "POWEROFF"), FALSE),
   UPLOAD_OTA_JSON |-> _to_bool(get(merged, "UPLOAD_OTA_JSON"), TRUE),
   OTA_JSON_PATH |-> get_or(merged, "OTA_JSON_PATH", cls.OTA_JSON_PATH),
   PIN_SUCCESS_MESSAGE |-> _to_bool(get(merged, "PIN_SUCCESS_MESSAGE"), TRUE),
   ENV_FILE |-> env_path]

\* load(env_file) as a whole: exc when an exception leaves it, val the
\* record it returns, merged the local dict as the call leaves it
load(env_file, environ, fs, cls, have_dotenv, stale) ==
  LET env_path == resolve_env_path(env_file, environ, fs)
      filed == read_env_file(new_merged(stale), fs, env_path, have_dotenv)
      merged == overlay_environ(filed.val, environ)
      threads == _to_int(get(merged, "THREADS"), cls.THREADS)
  IN [exc |-> filed.exc \/ threads.exc,
      merged |-> merged,
      val |-> construct(cls, merged, threads.val, env_path)]

---------------------------------------------------------------------------
(* BotConfig.to_script_env                                                 *)

\* str(b) of a bool: "True" and "False"
bool_str_capitalized(b) == IF b THEN <<"T", "r", "u", "e">> ELSE <<"F", "a", "l", "s", "e">>

bool_str(b) == IF b THEN <<"t", "r", "u", "e">> ELSE <<"f", "a", "l", "s", "e">>

to_script_env(self) ==
  [AXION_REMOTE_URL |-> self.AXION_REMOTE_URL,
   AXION_BRANCH |-> self.AXION_BRANCH,
   WORKDIR |-> self.WORKDIR,
   THREADS |-> str(self.THREADS),
   WITH_MIUI_CAM |-> bool_str(self.WITH_MIUI_CAM),
   APPLY_WPA_PATCHES |-> bool_str(self.APPLY_WPA_PATCHES),
   BUILD_VOLUME_DEVICE |-> self.BUILD_VOLUME_DEVICE]

---------------------------------------------------------------------------
(* The process: its environment, its files, and the calls made so far      *)

VARIABLES
  environ,           \* os.environ
  fs,                \* the regular files, by path
  dotenv_available,  \* whether "from dotenv import dotenv_values" succeeded
  cls,               \* the class attributes of BotConfig
  merged,            \* the dict the latest load call built
  op,                \* the latest operation
  env_file,          \* the argument of the latest load call
  status,            \* "none", or how the latest load call ended
  cfg,               \* the record the latest load call returned
  script_env,        \* the dict the latest to_script_env call returned
  ref,               \* one earlier load call, remembered: its inputs and its record
  changes            \* how many times the environment or the files were changed

vars == <<environ, fs, dotenv_available, cls, merged, op, env_file, status, cfg,
          script_env, ref, changes>>

NoCfg == [f \in FieldNames |-> None]

NoRef == [set |-> FALSE, env_file |-> None, environ |-> EmptyDict, fs |-> EmptyDict,
          cfg |-> NoCfg]

\* the dict of the keys a choice gives a value other than None
Dict(choice) == [k \in {j \in DOMAIN choice : choice[j] # None} |-> choice[k]]

Malformed == [exc |-> TRUE, val |-> EmptyDict]

Parsed(d) == [exc |-> FALSE, val |-> d]

CUSTOM_ENV == <<"c", "u", "s", "t", "o", "m", ".", "e", "n", "v">>

ALT_ENV == <<"a", "l", "t", ".", "e", "n", "v">>

MaxCpu == 2

MaxFiles == 2

\* os.cpu_count(): undetermined, or a count
CpuCounts == {0, MaxCpu}

\* load(), load(""), load("custom.env")
Args == {None, <<>>, CUSTOM_ENV}

Paths == {DOT_ENV, DOT_ENV_XAGA, CUSTOM_ENV, ALT_ENV}

FileContents ==
  {Malformed,
   Parsed([WORKDIR |-> None, ENV_FILE |-> CUSTOM_ENV, RUN_BUILD |-> <<"o", "n">>]),
   Parsed([WORKDIR |-> <<"w">>, THREADS |-> <<"3">>])}

Environs ==
  {Dict(c) : c \in [ENV_FILE : {None, <<>>, ALT_ENV},
                    THREADS : {None, <<"x">>},
                    RUN_BUILD : {None, <<"m", "a", "y", "b", "e">>}]}

FileSystems ==
  UNION {[P -> FileContents] : P \in {Q \in SUBSET Paths : Cardinality(Q) <= MaxFiles}}

Started(cpu_count) ==
  /\ cls = BotConfig(cpu_count)
  /\ merged = EmptyDict
  /\ op = "import"
  /\ env_file = None
  /\ status = "none"
  /\ cfg = NoCfg
  /\ script_env = EmptyDict
  /\ ref = NoRef
  /\ changes = 0

Init ==
  /\ environ \in Environs
  /\ fs \in FileSystems
  /\ dotenv_available \in BOOLEAN
  /\ \E cpu_count \in CpuCounts : Started(cpu_count)

Load(a) ==
  /\ LET r == load(a, environ, fs, cls, dotenv_available, merged)
     IN /\ status' = IF r.exc THEN "raised" ELSE "returned"
        /\ cfg' = IF r.exc THEN NoCfg ELSE r.val
        /\ merged' = r.merged
  /\ op' = "load"
  /\ env_file' = a
  /\ UNCHANGED <<environ, fs, dotenv_available, cls, script_env, ref, changes>>

ToScriptEnv ==
  /\ status = "returned"
  /\ script_env' = to_script_env(cfg)
  /\ op' = "to_script_env"
  /\ UNCHANGED <<environ, fs, dotenv_available, cls, merged, env_file, status, cfg,
                 ref, changes>>

Next ==
  \/ \E a \in Args : Load(a)
  \/ ToScriptEnv

Spec == Init /\ [][Next]_vars

---------------------------------------------------------------------------
(* One key at a time, over wide sets of values: the process starts with    *)
(* one field's key set in the environment and no file, or with the key in  *)
(* a dotenv file and perhaps in the environment too.                       *)

MaxPad == 1

MaxIntLen == 3

PadChars == {" "}

IntAlphabet == {"0", "1", "7", "+", "-", "_", " ", "x"}

\* the strings over an alphabet, up to a length
Strings(alphabet, n) == UNION {[1..m -> alphabet] : m \in 0..n}

\* a word in every mix of upper and lower case
RECURSIVE CaseVariants(_)
CaseVariants(w) ==
  IF w = <<>> THEN {<<>>}
  ELSE {<<c>> \o r : c \in {Head(w), upper_char(Head(w))}, r \in CaseVariants(Tail(w))}

Unrecognized ==
  {<<>>, <<"2">>, <<"1", "0">>, <<"t">>, <<"t", "r", "u">>, <<"y", "e">>, <<"o", "f">>,
   <<"o", " ", "n">>, <<"n", "o", "!">>}

BoolValues ==
  {l \o w \o r : l \in Strings(PadChars, MaxPad),
                 w \in UNION {CaseVariants(x) : x \in Truthy \cup Falsy \cup Unrecognized},
                 r \in Strings(PadChars, MaxPad)}

IntValues == Strings(IntAlphabet, MaxIntLen)

StrValues == {<<>>, <<"x">>, <<" ", "X", " ">>}

PathValues == {<<>>, DOT_ENV, ALT_ENV}

EnvValues(K) ==
  IF K \in BoolFields THEN BoolValues
  ELSE IF K \in IntFields THEN IntValues
  ELSE IF K = "ENV_FILE" THEN PathValues
  ELSE StrValues

\* what a file gives a key: a value, or None for a key written without one
FileValues(K) ==
  IF K \in BoolFields THEN {None, <<"o", "n">>, <<"O", "f", "f">>}
  ELSE IF K \in IntFields THEN {None, <<"3">>}
  ELSE {None, <<"f">>}

\* what the environment gives a key that a file gives too
LayerValues(K) ==
  IF K \in BoolFields THEN {<<"y", "e", "s">>, <<"n", "o">>, <<"t", "r", "u">>}
  ELSE IF K \in IntFields THEN {<<"1", "7">>, <<"x">>}
  ELSE IF K = "ENV_FILE" THEN PathValues
  ELSE StrValues

InitValues ==
  /\ dotenv_available = TRUE
  /\ \E cpu_count \in CpuCounts : Started(cpu_count)
  /\ \E K \in FieldNames :
       \/ /\ fs = EmptyDict
          /\ environ \in {[k \in {K} |-> v] : v \in EnvValues(K)}
       \/ /\ fs \in {[p \in {path} |-> Parsed([k \in {K} |-> vf])] :
                       path \in {DOT_ENV, ALT_ENV}, vf \in FileValues(K)}
          /\ environ \in {EmptyDict} \cup {[k \in {K} |-> ve] : ve \in LayerValues(K)}

NextValues ==
  \/ Load(None)
  \/ ToScriptEnv

SpecValues == InitValues /\ [][NextValues]_vars

---------------------------------------------------------------------------
(* A process whose environment and files change between the calls          *)

MaxChanges == 2

\* what other code of the process may set in os.environ
EnvSettings == {<<"WORKDIR", <<"e">>>>, <<"ENV_FILE", CUSTOM_ENV>>}

\* the files other code of the process may write or remove
WrittenPaths == {DOT_ENV_XAGA, CUSTOM_ENV}

SetEnv(k, v) ==
  /\ changes < MaxChanges
  /\ environ' = update(environ, [j \in {k} |-> v])
  /\ changes' = changes + 1
  /\ op' = "environment"
  /\ UNCHANGED <<fs, dotenv_available, cls, merged, env_file, status, cfg, script_env, ref>>

UnsetEnv(k) ==
  /\ changes < MaxChanges
  /\ k \in DOMAIN environ
  /\ environ' = [j \in DOMAIN environ \ {k} |-> environ[j]]
  /\ changes' = changes + 1
  /\ op' = "environment"
  /\ UNCHANGED <<fs, dotenv_available, cls, merged, env_file, status, cfg, script_env, ref>>

WriteFile(path, content) ==
  /\ changes < MaxChanges
  /\ fs' = update(fs, [p \in {path} |-> content])
  /\ changes' = changes + 1
  /\ op' = "environment"
  /\ UNCHANGED <<environ, dotenv_available, cls, merged, env_file, status, cfg,
                 script_env, ref>>

RemoveFile(path) ==
  /\ changes < MaxChanges
  /\ path \in DOMAIN fs
  /\ fs' = [p \in DOMAIN fs \ {path} |-> fs[p]]
  /\ changes' = changes + 1
  /\ op' = "environment"
  /\ UNCHANGED <<environ, dotenv_available, cls, merged, env_file, status, cfg,
                 script_env, ref>>

\* keep the latest call, its inputs and its record, to compare later calls with
Remember ==
  /\ op = "load"
  /\ status = "returned"
  /\ ~ref.set
  /\ ref' = [set |-> TRUE, env_file |-> env_file, environ |-> environ, fs |-> fs,
             cfg |-> cfg]
  /\ op' = "remember"
  /\ UNCHANGED <<environ, fs, dotenv_available, cls, merged, env_file, status, cfg,
                 script_env, changes>>

InitCalls ==
  /\ environ = EmptyDict
  /\ fs = EmptyDict
  /\ dotenv_available = TRUE
  /\ \E cpu_count \in CpuCounts : Started(cpu_count)

NextCalls ==
  \/ \E a \in Args : Load(a)
  \/ \E e \in EnvSettings : SetEnv(e[1], e[2])
  \/ \E k \in FieldNames : UnsetEnv(k)
  \/ \E path \in WrittenPaths, content \in FileContents : WriteFile(path, content)
  \/ \E path \in WrittenPaths : RemoveFile(path)
  \/ Remember

SpecCalls == InitCalls /\ [][NextCalls]_vars

---------------------------------------------------------------------------
(* What the specification says, stated over the calls                      *)

Given(v) == v # None /\ v # <<>>

\* the path of resolution steps (1) and (2): the argument, else the
\* environment's ENV_FILE, else the default filename
PrimaryPath ==
  IF Given(env_file) THEN env_file
  ELSE IF "ENV_FILE" \in DOMAIN environ /\ environ["ENV_FILE"] # <<>> THEN environ["ENV_FILE"]
  ELSE DOT_ENV

\* the latest call read a dotenv file: the one at the path it recorded
FileRead ==
  /\ dotenv_available
  /\ isfile(fs, cfg.ENV_FILE)
  /\ ~fs[cfg.ENV_FILE].exc

FileGives(K) ==
  /\ FileRead
  /\ K \in DOMAIN fs[cfg.ENV_FILE].val
  /\ fs[cfg.ENV_FILE].val[K] # None

CoercionOf(K, v) ==
  IF K \in BoolFields THEN _to_bool(v, cls[K])
  ELSE IF K \in IntFields THEN _to_int(v, cls[K]).val
  ELSE v

FromEnvironOrDefault(K) ==
  IF K \in DOMAIN environ THEN CoercionOf(K, environ[K]) ELSE cls[K]

IsString(v) == v # None /\ DOMAIN v = 1..Len(v)

WellTyped(c) ==
  /\ \A f \in BoolFields : c[f] \in BOOLEAN
  /\ \A f \in IntFields : c[f] \in Int
  /\ \A f \in StrFields : IsString(c[f])

\* the sets of section 4.1 of the specification
SpecTruthy == {<<"1">>, <<"t", "r", "u", "e">>, <<"y", "e", "s">>, <<"y">>, <<"o", "n">>}

SpecFalsy == {<<"0">>, <<"f", "a", "l", "s", "e">>, <<"n", "o">>, <<"n">>, <<"o", "f", "f">>}

AnyCaseTruthy == UNION {CaseVariants(w) : w \in SpecTruthy}

AnyCaseFalsy == UNION {CaseVariants(w) : w \in SpecFalsy}

\* s is a member of words between leading and trailing whitespace
Padded(s, words) ==
  \E i \in 1..(Len(s) + 1), j \in 0..Len(s) :
    /\ \A n \in DOMAIN s : (n < i \/ n > j) => s[n] \in Whitespace
    /\ SubSeq(s, i, j) \in words

\* s without its leading and trailing whitespace
Trimmed(s) ==
  LET solid == {i \in DOMAIN s : s[i] \notin Whitespace}
  IN IF solid = {} THEN <<>>
     ELSE SubSeq(s, CHOOSE i \in solid : \A j \in solid : i <= j,
                    CHOOSE i \in solid : \A j \in solid : j <= i)

Unsigned(t) == IF t # <<>> /\ t[1] \in {"+", "-"} THEN SubSeq(t, 2, Len(t)) ELSE t

\* t is a base-10 integer literal: an optional sign, then digits, in which
\* single underscores may group the digits
IsLiteral(t) ==
  LET b == Unsigned(t)
  IN /\ b # <<>>
     /\ IsDigit(b[1]) /\ IsDigit(b[Len(b)])
     /\ \A i \in DOMAIN b : IsDigit(b[i]) \/ (b[i] = "_" /\ b[i - 1] # "_")

\* the sum of the digits of b from position i on, each times its power of ten
RECURSIVE PlaceSum(_, _)
PlaceSum(b, i) ==
  IF i > Len(b) THEN 0
  ELSE (IF IsDigit(b[i])
        THEN DigitVal(b[i]) * 10 ^ Cardinality({j \in (i + 1)..Len(b) : IsDigit(b[j])})
        ELSE 0) + PlaceSum(b, i + 1)

LiteralValue(t) ==
  IF t[1] = "-" THEN 0 - PlaceSum(Unsigned(t), 1) ELSE PlaceSum(Unsigned(t), 1)

\* t is n written in decimal: digits only, a minus sign for a negative n,
\* no leading zero
IsDecimalOf(t, n) ==
  LET d == IF n < 0 THEN Tail(t) ELSE t
  IN /\ t # <<>>
     /\ n < 0 => t[1] = "-"
     /\ d # <<>>
     /\ \A i \in DOMAIN d : IsDigit(d[i])
     /\ Len(d) > 1 => d[1] # "0"
     /\ PlaceSum(d, 1) = (IF n < 0 THEN 0 - n ELSE n)

ScriptKeys == {"AXION_REMOTE_URL", "AXION_BRANCH", "WORKDIR", "THREADS", "WITH_MIUI_CAM",
               "APPLY_WPA_PATCHES", "BUILD_VOLUME_DEVICE"}

C1Layered(K) ==
  (status = "returned" /\ FileGives(K) /\ K \in DOMAIN environ)
    => cfg[K] = CoercionOf(K, environ[K])

\* C1 as stated: for every declared field key K that the file load reads
\* and the environment both assign, the record's field K is the coercion of
\* the environment's value.
C1Original == \A K \in FieldNames : C1Layered(K)

\* C1, amended: the same for every declared field key K other than ENV_FILE,
\* whose field is the resolved path and is taken from neither.
C1EnvironmentOverridesFile == \A K \in FieldNames \ {"ENV_FILE"} : C1Layered(K)

C1Witness ==
  /\ status = "returned"
  /\ FileGives("RUN_BUILD")
  /\ fs[cfg.ENV_FILE].val["RUN_BUILD"] = <<"o", "n">>
  /\ get(environ, "RUN_BUILD") = <<"n", "o">>
  /\ cfg.RUN_BUILD = FALSE

\* C4 as stated: a boolean field is true when the merged value matches a
\* truthy word ignoring case only, false when it matches a falsy word
\* ignoring case only, and the field's static default for any other string
\* or an absent key.
C4Original ==
  status = "returned" =>
    \A f \in BoolFields :
      LET s == get(merged, f)
      IN IF s # None /\ s \in AnyCaseTruthy THEN cfg[f] = TRUE
         ELSE IF s # None /\ s \in AnyCaseFalsy THEN cfg[f] = FALSE
         ELSE cfg[f] = cls[f]

\* C4, amended: the match ignores letter case and leading and trailing
\* whitespace; any other string, and an absent key, give the static default.
C4BooleanCoercion ==
  status = "returned" =>
    \A f \in BoolFields :
      LET s == get(merged, f)
      IN IF s # None /\ Padded(s, AnyCaseTruthy) THEN cfg[f] = TRUE
         ELSE IF s # None /\ Padded(s, AnyCaseFalsy) THEN cfg[f] = FALSE
         ELSE cfg[f] = cls[f]

C4Witness ==
  /\ status = "returned"
  /\ get(merged, "RUN_BUILD") = <<" ", "O", "n">>
  /\ cls.RUN_BUILD = FALSE
  /\ cfg.RUN_BUILD = TRUE

\* C5: THREADS is the integer of a merged value that is a base-10 integer
\* literal (read as int() reads it, between leading and trailing
\* whitespace), and the static default when the key is absent or the value
\* is no such literal; no call raises.
C5IntegerCoercion ==
  status # "none" =>
    /\ status = "returned"
    /\ LET s == get(merged, "THREADS")
       IN IF s # None /\ IsLiteral(Trimmed(s))
          THEN cfg.THREADS = LiteralValue(Trimmed(s))
          ELSE cfg.THREADS = cls.THREADS

C5Witness ==
  /\ status = "returned"
  /\ get(merged, "THREADS") = <<"-", "1", "7">>
  /\ cfg.THREADS = 0 - 17
  /\ cfg.THREADS # cls.THREADS

\* C7: to_script_env returns exactly the seven keys, each with a string:
\* the two flags as "true" or "false", THREADS in decimal, the string
\* fields unchanged; and it leaves the record as it was.
C7ScriptEnv ==
  [][op' = "to_script_env" =>
       /\ cfg' = cfg
       /\ DOMAIN script_env' = ScriptKeys
       /\ \A k \in ScriptKeys : IsString(script_env'[k])
       /\ script_env'.WITH_MIUI_CAM =
            (IF cfg.WITH_MIUI_CAM THEN <<"t", "r", "u", "e">> ELSE <<"f", "a", "l", "s", "e">>)
       /\ script_env'.APPLY_WPA_PATCHES =
            (IF cfg.APPLY_WPA_PATCHES THEN <<"t", "r", "u", "e">>
             ELSE <<"f", "a", "l", "s", "e">>)
       /\ IsDecimalOf(script_env'.THREADS, cfg.THREADS)
       /\ \A k \in {"AXION_REMOTE_URL", "AXION_BRANCH", "WORKDIR", "BUILD_VOLUME_DEVICE"} :
            script_env'[k] = cfg[k]]_vars

C7Witness ==
  /\ op = "to_script_env"
  /\ cfg.APPLY_WPA_PATCHES = TRUE
  /\ script_env.APPLY_WPA_PATCHES = <<"t", "r", "u", "e">>
  /\ script_env.WITH_MIUI_CAM = <<"f", "a", "l", "s", "e">>
  /\ script_env.THREADS = <<"8">>

\* C2: every load call returns, whatever the file and the environment
\* hold, with a record whose every field has a value of its declared type;
\* when no file could be read the fields come from the environment and the
\* defaults alone.
C2NeverRaises ==
  status # "none" =>
    /\ status = "returned"
    /\ WellTyped(cfg)
    /\ ~FileRead => \A K \in FieldNames \ {"ENV_FILE"} : cfg[K] = FromEnvironOrDefault(K)

C2Witness ==
  /\ status = "returned"
  /\ dotenv_available
  /\ isfile(fs, cfg.ENV_FILE)
  /\ fs[cfg.ENV_FILE].exc
  /\ get(environ, "THREADS") = <<"x">>
  /\ get(environ, "RUN_BUILD") = <<"m", "a", "y", "b", "e">>
  /\ cfg.THREADS = cls.THREADS
  /\ cfg.RUN_BUILD = FALSE

\* C3: load() with neither .env nor .env_xaga on disk and no field key in
\* the environment returns the class defaults, ENV_FILE being ".env".
C3Defaults ==
  ( /\ status = "returned"
    /\ env_file = None
    /\ ~isfile(fs, DOT_ENV)
    /\ ~isfile(fs, DOT_ENV_XAGA)
    /\ DOMAIN environ \cap FieldNames = {} )
    => /\ cfg = cls
       /\ cfg.ENV_FILE = DOT_ENV

C3Witness ==
  /\ status = "returned"
  /\ env_file = None
  /\ fs = EmptyDict
  /\ environ = EmptyDict
  /\ cfg = cls
  /\ cfg.RUN_ENV_SETUP = TRUE
  /\ cfg.RUN_BUILD = FALSE

FallbackTaken == ~isfile(fs, PrimaryPath) /\ isfile(fs, DOT_ENV_XAGA)

C8PathPrecedence ==
  status = "returned" =>
    IF Given(env_file) THEN cfg.ENV_FILE = env_file
    ELSE IF Given(get(environ, "ENV_FILE")) THEN cfg.ENV_FILE = environ["ENV_FILE"]
    ELSE cfg.ENV_FILE \in {DOT_ENV, DOT_ENV_XAGA}

\* C9: the fallback to ".env_xaga" is taken only from the default ".env":
\* with an explicit argument, or a path named by the ENV_FILE environment
\* variable, ".env_xaga" is not substituted and not recorded.
C9FallbackOnlyFromDefault ==
  (status = "returned" /\ (Given(env_file) \/ Given(get(environ, "ENV_FILE"))))
    => cfg.ENV_FILE # DOT_ENV_XAGA

\* C10: a load call leaves the environment, the files and the class
\* defaults as they were, returns, and returns the record of the remembered
\* earlier call whenever its argument, the files and the environment are
\* those of that call.
C10Independent ==
  [][op' = "load" =>
       /\ environ' = environ /\ fs' = fs /\ cls' = cls
       /\ dotenv_available' = dotenv_available
       /\ status' = "returned"
       /\ (ref.set /\ ref.env_file = env_file' /\ ref.environ = environ /\ ref.fs = fs)
            => cfg' = ref.cfg]_vars

C10Witness ==
  /\ op = "load"
  /\ changes = MaxChanges
  /\ ref.set
  /\ ref.env_file = env_file
  /\ ref.environ = environ
  /\ ref.fs = fs
  /\ merged # EmptyDict
  /\ cfg = ref.cfg

====
